---- MODULE Spec2Model ----
(***************************************************************************)
(* Model of the deal-boost-board sales CRM: the invite-sales-rep and       *)
(* webhook-customer-onboard edge functions, the row-level policies of the  *)
(* 20251014145327 migration, and the CSV import path of ImportCsv.tsx,     *)
(* CSVUpload.tsx and customerService.ts.                                   *)
(*                                                                         *)
(* Strings that the code inspects (emails, CSV cells) are sequences of     *)
(* one-character strings, so that toLowerCase() and includes('@') are      *)
(* computed and not assumed.  NULL stands for SQL NULL / JS null.          *)
(***************************************************************************)
EXTENDS Integers, Sequences, FiniteSets, TLC

NULL == 0

\* ------------------------------------------------------------------ bounds
MaxUsers == 4          \* identities the identity provider can hold
MaxCalls == 2          \* invite-sales-rep invocations in one behaviour
MaxFaults == 1         \* infrastructure errors injected in one behaviour
MaxHooks == 2          \* webhook-customer-onboard invocations
MaxSignUps == 1        \* administrator sign-ups after Init
MaxImports == 2        \* CSV imports in one behaviour
MaxLines == 3          \* lines after the header in an imported file
MaxLeadLines == 1      \* the same, where imports meet webhook calls

Slots == {1, 2}        \* concurrently running invite-sales-rep requests

\* ------------------------------------------------------------- strings
\* String.prototype.toLowerCase() on the letters the model uses.
Upper == <<"A", "B", "C", "D", "N", "U", "X", "Y">>
Lower == <<"a", "b", "c", "d", "n", "u", "x", "y">>

LowerChar(c) ==
  IF \E i \in DOMAIN Upper : Upper[i] = c
  THEN Lower[CHOOSE i \in DOMAIN Upper : Upper[i] = c]
  ELSE c

toLowerCase(s) == [i \in DOMAIN s |-> LowerChar(s[i])]

includesAt(s) == \E i \in DOMAIN s : s[i] = "@"

EmailA == <<"a", "@">>     \* e-mail of the administrator of tenant 1
EmailB == <<"b", "@">>     \* e-mail of the administrator without tenant
EmailC == <<"c", "@">>
EmailCu == <<"C", "@">>    \* EmailC in another letter case
EmailD == <<"d", "@">>

InviteEmails == {<<>>, EmailA, EmailC}
InviteNames == {"Ann"}
SignUpEmails == {EmailD}

NoHeader == -1         \* request without Authorization header
BadToken == -2         \* bearer credential that resolves to no user

VARIABLES
  users,        \* auth.users: set of [id, email]
  profiles,     \* public.profiles: set of [user_id, role, client_id]
  user_roles,   \* public.user_roles: set of [user_id, role, tenant_id]
  clients,      \* public.clients: set of [id, created_for]
  sales_reps,   \* public.sales_reps: set of rows
  audit_logs,   \* public.audit_logs: set of rows
  customers,    \* public.customers: set of rows
  req,          \* the local variables of each running invite-sales-rep call
  calls,        \* invite-sales-rep calls started
  faults,       \* infrastructure errors injected
  hook,         \* the last webhook-customer-onboard call and its response
  hooks,        \* webhook-customer-onboard calls made
  signups,      \* sign-ups made
  file,         \* the lines after the header of the CSV file to import
  imp,          \* the last CSV import: caller, drafts, errors, outcome
  imports,      \* the CSV imports made, in order
  csvLine,      \* one line of a CSV file, as its characters
  columns,      \* the fields of csvLine that reach the row loop
  headers,      \* the header names of a CSV file, lower-cased
  variations,   \* the list of name variations of one column
  columnIndex,  \* <<the index getColumnIndex returned>>, <<>> before the call
  workflows,    \* public.workflows: set of rows
  updates,      \* service calls made
  svc           \* the last service call that resolves a role or a tenant

vars == <<users, profiles, user_roles, clients, sales_reps, audit_logs,
          customers, req, calls, faults, hook, hooks, signups, file, imp,
          imports, csvLine, columns, headers, variations, columnIndex,
          workflows, updates, svc>>

csvVars == <<csvLine, columns, headers, variations, columnIndex>>
wfVars == <<workflows, updates, svc>>

dbVars == <<users, profiles, user_roles, clients, sales_reps, audit_logs,
            customers>>

\* ------------------------------------------------------- table helpers
ProfileOf(u) == {p \in profiles : p.user_id = u}

NextUserId == Cardinality(users) + 1
NextClientId == Cardinality(clients) + 1
NextRepId == Cardinality(sales_reps) + 1
NextAuditId == Cardinality(audit_logs) + 1

\* The identity provider keeps e-mails unique without regard to case.
EmailTaken(e) == \E u \in users : toLowerCase(u.email) = toLowerCase(e)

\* has_role(_user_id, _role): EXISTS over user_roles.
has_role(u, role) == \E ur \in user_roles : ur.user_id = u /\ ur.role = role

\* get_user_tenant_id(_user_id): SELECT tenant_id ... LIMIT 1 without
\* ORDER BY.  The result is any one of the user's rows, so the operator is
\* the set of results the database may produce (NULL when there is no row).
get_user_tenant_id(u) ==
  IF \E ur \in user_roles : ur.user_id = u
  THEN {ur.tenant_id : ur \in {x \in user_roles : x.user_id = u}}
  ELSE {NULL}

\* Policy "Client admins can view audit logs for their tenant".
CanViewAuditLogs(u, t) ==
  has_role(u, "client_admin") /\ t \in get_user_tenant_id(u)

\* Policy "Client admins can view all workflows in their tenant".
CanViewWorkflowsAsAdmin(u, t) ==
  has_role(u, "client_admin") /\ t \in get_user_tenant_id(u)

\* handle_new_user(): the AFTER INSERT trigger on auth.users, as the new
\* values of <<profiles, clients, user_roles>>.  metaRole is
\* raw_user_meta_data ->> 'role'.  A new identity has no profile row, so
\* the profile insert takes effect and client_id reads NULL.
handle_new_user(id, metaRole) ==
  LET v_role == IF metaRole = "sales_rep" THEN "sales_rep" ELSE "client_admin"
      v_new == NextClientId
  IN  IF v_role = "client_admin"
      THEN <<profiles \cup {[user_id |-> id, role |-> v_role, client_id |-> v_new]},
             clients \cup {[id |-> v_new, created_for |-> id]},
             user_roles \cup {[user_id |-> id, role |-> v_role, tenant_id |-> v_new]}>>
      ELSE <<profiles \cup {[user_id |-> id, role |-> v_role, client_id |-> NULL]},
             clients,
             user_roles>>

\* ensure_user_client(): provisions the caller's tenant.  Its body is not
\* part of the sources at hand; it is modelled from section 4.6 of the
\* specification: one atomic call that returns the tenant the identity
\* already has, and otherwise creates one tenant and attaches the
\* assignment.  The result is <<profiles, clients, user_roles, tenant id>>.
ensure_user_client_Reprovision(u) ==
  LET v_new == NextClientId
  IN  <<{p \in profiles : p.user_id # u}
          \cup {[p EXCEPT !.client_id = v_new] : p \in ProfileOf(u)},
        clients \cup {[id |-> v_new, created_for |-> u]},
        user_roles \cup {[user_id |-> u, role |-> "client_admin", tenant_id |-> v_new]},
        v_new>>

ensure_user_client(u) ==
  LET p == CHOOSE x \in ProfileOf(u) : TRUE
  IN  IF p.client_id # NULL
      THEN <<profiles, clients, user_roles, p.client_id>>
      ELSE ensure_user_client_Reprovision(u)

\* ------------------------------------------------------------------ Init
IdleReq ==
  [pc |-> "idle", caller |-> NULL, email |-> <<>>, name |-> "",
   clientId |-> NULL, salesUser |-> NULL, created |-> FALSE,
   existingRep |-> NULL, status |-> 0, wrote |-> {}, ensured |-> FALSE,
   existed |-> FALSE, auditId |-> NULL, failed |-> {}, steps |-> <<>>]

NoHook == [status |-> 0, rep_email |-> <<>>, email |-> <<>>, given |-> "",
           rep |-> {}]

NoImport == [caller |-> NULL, mode |-> "", component |-> "", drafts |-> <<>>,
             errors |-> <<>>, ok |-> FALSE, persisted |-> {},
             message |-> [kind |-> "none"]]

\* Identity 1 signed up as an administrator under handle_new_user (profile,
\* tenant 1 and role assignment).  Identity 2 is an administrator profile
\* from before the migration, without client_id: the migration copies only
\* profiles with a client_id into user_roles (lines 88-93), and
\* invite-sales-rep provisions such a caller on first use (lines 223-238).
InitDb ==
  /\ users = {[id |-> 1, email |-> EmailA], [id |-> 2, email |-> EmailB]}
  /\ profiles = {[user_id |-> 1, role |-> "client_admin", client_id |-> 1],
                 [user_id |-> 2, role |-> "client_admin", client_id |-> NULL]}
  /\ user_roles = {[user_id |-> 1, role |-> "client_admin", tenant_id |-> 1]}
  /\ clients = {[id |-> 1, created_for |-> 1]}
  /\ sales_reps = {}
  /\ audit_logs = {}
  /\ customers = {}

\* No line parsed, no header read.
InitCsv ==
  /\ csvLine = <<>>
  /\ columns = [component |-> "", cols |-> <<>>]
  /\ headers = <<>>
  /\ variations = <<>>
  /\ columnIndex = <<>>

NoService == [op |-> "", user |-> NULL, role |-> "", result |-> NULL]

InitWf ==
  /\ workflows = {}
  /\ updates = 0
  /\ svc = NoService

InitCalls ==
  /\ req = [r \in Slots |-> IdleReq]
  /\ calls = 0
  /\ faults = 0
  /\ hook = NoHook
  /\ hooks = 0
  /\ signups = 0
  /\ imp = NoImport
  /\ imports = <<>>

InitCtl == InitCalls /\ InitCsv /\ InitWf

Init == InitDb /\ InitCtl /\ file = <<>>

\* ------------------------------------------------- invite-sales-rep
\* An infrastructure error may strike a call to the persistence layer or to
\* the identity provider; at most MaxFaults are injected in one behaviour.
Faulty(f) == f => faults < MaxFaults
Count(f) == faults' = faults + (IF f THEN 1 ELSE 0)

Respond(r, code) == [req[r] EXCEPT !.pc = "done", !.status = code]

\* Lines 155-199: body and header checks, auth.getUser().
InviteStart(r, auth, email, name) ==
  /\ req[r].pc \in {"idle", "done"}
  /\ calls < MaxCalls
  /\ calls' = calls + 1
  /\ LET fresh == [IdleReq EXCEPT !.caller = auth, !.email = email, !.name = name,
                                  !.existed = EmailTaken(email)]
     IN  req' = [req EXCEPT ![r] =
           IF email = <<>> THEN [fresh EXCEPT !.pc = "done", !.status = 400]
           ELSE IF auth = NoHeader THEN [fresh EXCEPT !.pc = "done", !.status = 401]
           ELSE IF auth = BadToken THEN [fresh EXCEPT !.pc = "done", !.status = 401]
           ELSE [fresh EXCEPT !.pc = "profile"]]
  /\ UNCHANGED <<csvVars, wfVars, dbVars, faults, hook, hooks, signups, file, imp, imports>>

\* InviteProfile with the tenant provisioned before the role is checked.
InviteProfile_EnsureFirst(r) ==
  /\ req[r].pc = "profile"
  /\ LET found == ProfileOf(req[r].caller)
         profile == CHOOSE p \in found : TRUE
         res == ensure_user_client(req[r].caller)
         provisioned == found # {} /\ profile.client_id = NULL
     IN  /\ profiles' = IF provisioned THEN res[1] ELSE profiles
         /\ clients' = IF provisioned THEN res[2] ELSE clients
         /\ user_roles' = IF provisioned THEN res[3] ELSE user_roles
         /\ req' = [req EXCEPT ![r] =
              IF found = {} THEN Respond(r, 403)
              ELSE IF profile.role # "client_admin"
              THEN [Respond(r, 403) EXCEPT
                      !.wrote = IF provisioned
                                THEN {"clients", "profiles", "user_roles"} ELSE {}]
              ELSE [req[r] EXCEPT
                      !.clientId = IF provisioned THEN res[4] ELSE profile.client_id,
                      !.ensured = provisioned,
                      !.wrote = IF provisioned
                                THEN {"clients", "profiles", "user_roles"} ELSE {},
                      !.pc = "find"]]
  /\ UNCHANGED <<csvVars, wfVars, users, sales_reps, audit_logs, customers, calls, faults, hook,
                 hooks, signups, file, imp, imports>>

\* Lines 201-224: the caller's profile and the role check.
InviteProfile(r) ==
  /\ req[r].pc = "profile"
  /\ \E f \in BOOLEAN :
       /\ Faulty(f)
       /\ Count(f)
       /\ LET found == ProfileOf(req[r].caller)
          IN  req' = [req EXCEPT ![r] =
                IF f THEN Respond(r, 500)
                ELSE IF found = {} THEN Respond(r, 403)
                ELSE LET profile == CHOOSE p \in found : TRUE
                     IN  IF profile.role # "client_admin" THEN Respond(r, 403)
                         ELSE [req[r] EXCEPT
                                 !.clientId = profile.client_id,
                                 !.pc = IF profile.client_id = NULL
                                        THEN "ensure" ELSE "find"]]
  /\ UNCHANGED <<csvVars, wfVars, dbVars, calls, hook, hooks, signups, file, imp, imports>>

\* Lines 225-238: rpc("ensure_user_client") for a caller without tenant.
InviteEnsure(r) ==
  /\ req[r].pc = "ensure"
  /\ \E f \in BOOLEAN :
       /\ Faulty(f)
       /\ Count(f)
       /\ IF f
          THEN /\ req' = [req EXCEPT ![r] = Respond(r, 500)]
               /\ UNCHANGED <<csvVars, wfVars, profiles, clients, user_roles>>
          ELSE LET res == ensure_user_client(req[r].caller)
               IN  /\ profiles' = res[1]
                   /\ clients' = res[2]
                   /\ user_roles' = res[3]
                   /\ req' = [req EXCEPT ![r] =
                        [req[r] EXCEPT
                           !.clientId = res[4], !.pc = "find", !.ensured = TRUE,
                           !.wrote = IF res[2] # clients
                                     THEN @ \cup {"clients", "profiles", "user_roles"}
                                     ELSE @]]
  /\ UNCHANGED <<csvVars, wfVars, users, sales_reps, audit_logs, customers, calls, hook, hooks,
                 signups, file, imp, imports>>

\* findUserByEmail(), lines 244-258: the first identity whose e-mail equals
\* the given one without regard to case, or NULL.
findUserByEmail(email) ==
  LET match == {u \in users : toLowerCase(u.email) = toLowerCase(email)}
  IN  IF match = {} THEN NULL ELSE (CHOOSE u \in match : TRUE).id

\* InviteFind that goes on to the invitation whatever the lookup found.
InviteFind_AlwaysInvite(r) ==
  /\ req[r].pc = "find"
  /\ \E f \in BOOLEAN :
       /\ Faulty(f)
       /\ Count(f)
       /\ LET salesUser == IF f THEN NULL ELSE findUserByEmail(req[r].email)
          IN  req' = [req EXCEPT ![r] =
                [req[r] EXCEPT !.salesUser = salesUser,
                               !.steps = Append(@, [step |-> "find",
                                                    resolved |-> salesUser # NULL]),
                               !.pc = "invite"]]
  /\ UNCHANGED <<csvVars, wfVars, dbVars, calls, hook, hooks, signups, file, imp, imports>>

\* Line 260 (and 302-307: updateUserById aligns the metadata of an identity
\* that was found; the metadata is read by nothing after sign-up).
\* A listUsers error makes the lookup return null (line 249-251).
InviteFind(r) ==
  /\ req[r].pc = "find"
  /\ \E f \in BOOLEAN :
       /\ Faulty(f)
       /\ Count(f)
       /\ LET salesUser == IF f THEN NULL ELSE findUserByEmail(req[r].email)
          IN  req' = [req EXCEPT ![r] =
                [req[r] EXCEPT !.salesUser = salesUser,
                               !.steps = Append(@, [step |-> "find",
                                                    resolved |-> salesUser # NULL]),
                               !.pc = IF salesUser = NULL THEN "invite" ELSE "profiles"]]
  /\ UNCHANGED <<csvVars, wfVars, dbVars, calls, hook, hooks, signups, file, imp, imports>>

\* CreateIdentity that leaves the `created` flag of the call unset.
CreateIdentity_NotFlagged(r, metaRole, step) ==
  LET id == NextUserId
      res == handle_new_user(id, metaRole)
  IN  /\ users' = users \cup {[id |-> id, email |-> req[r].email]}
      /\ profiles' = res[1]
      /\ clients' = res[2]
      /\ user_roles' = res[3]
      /\ req' = [req EXCEPT ![r] =
           [req[r] EXCEPT !.salesUser = id, !.pc = "profiles",
                          !.steps = Append(@, [step |-> step, resolved |-> TRUE]),
                          !.wrote = @ \cup {"users", "profiles"}]]

\* The identity provider adds an identity (e-mail stored as given) and the
\* trigger handle_new_user runs in the same transaction.
CreateIdentity(r, metaRole, step) ==
  LET id == NextUserId
      res == handle_new_user(id, metaRole)
  IN  /\ users' = users \cup {[id |-> id, email |-> req[r].email]}
      /\ profiles' = res[1]
      /\ clients' = res[2]
      /\ user_roles' = res[3]
      /\ req' = [req EXCEPT ![r] =
           [req[r] EXCEPT !.salesUser = id, !.created = TRUE, !.pc = "profiles",
                          !.steps = Append(@, [step |-> step, resolved |-> TRUE]),
                          !.wrote = @ \cup {"users", "profiles"}]]

\* Lines 264-273 and 298-301: inviteUserByEmail.  It fails when the e-mail
\* is registered already or on a provider error.
InviteSend(r) ==
  /\ req[r].pc = "invite"
  /\ \E f \in BOOLEAN :
       /\ Faulty(f)
       /\ Count(f)
       /\ IF f \/ EmailTaken(req[r].email)
          THEN /\ req' = [req EXCEPT ![r] =
                    [req[r] EXCEPT !.pc = "create",
                       !.steps = Append(@, [step |-> "invite", resolved |-> FALSE])]]
               /\ UNCHANGED <<csvVars, wfVars, users, profiles, clients, user_roles>>
          ELSE /\ NextUserId <= MaxUsers
               /\ CreateIdentity(r, "sales_rep", "invite")
  /\ UNCHANGED <<csvVars, wfVars, sales_reps, audit_logs, customers, calls, hook, hooks,
                 signups, file, imp, imports>>

\* Lines 274-297: createUser with a temporary password after a failed
\* invitation.
InviteCreate(r) ==
  /\ req[r].pc = "create"
  /\ \E f \in BOOLEAN :
       /\ Faulty(f)
       /\ Count(f)
       /\ IF f \/ EmailTaken(req[r].email)
          THEN /\ req' = [req EXCEPT ![r] =
                    [req[r] EXCEPT !.pc = "find2",
                       !.steps = Append(@, [step |-> "create", resolved |-> FALSE])]]
               /\ UNCHANGED <<csvVars, wfVars, users, profiles, clients, user_roles>>
          ELSE /\ NextUserId <= MaxUsers
               /\ CreateIdentity(r, "sales_rep", "create")
  /\ UNCHANGED <<csvVars, wfVars, sales_reps, audit_logs, customers, calls, hook, hooks,
                 signups, file, imp, imports>>

\* InviteFind2 without the lookup: a failed createUser ends the call.
InviteFind2_NoLookup(r) ==
  /\ req[r].pc = "find2"
  /\ \E f \in BOOLEAN :
       /\ Faulty(f)
       /\ Count(f)
       /\ req' = [req EXCEPT ![r] =
            [Respond(r, 400) EXCEPT
               !.steps = Append(@, [step |-> "find2", resolved |-> FALSE])]]
  /\ UNCHANGED <<csvVars, wfVars, dbVars, calls, hook, hooks, signups, file, imp, imports>>

\* Lines 284-293: the final lookup after createUser failed.
InviteFind2(r) ==
  /\ req[r].pc = "find2"
  /\ \E f \in BOOLEAN :
       /\ Faulty(f)
       /\ Count(f)
       /\ LET salesUser == IF f THEN NULL ELSE findUserByEmail(req[r].email)
          IN  req' = [req EXCEPT ![r] =
                IF salesUser = NULL
                THEN [Respond(r, 400) EXCEPT
                        !.steps = Append(@, [step |-> "find2", resolved |-> FALSE])]
                ELSE [req[r] EXCEPT
                        !.salesUser = salesUser, !.pc = "profiles",
                        !.steps = Append(@, [step |-> "find2", resolved |-> TRUE])]]
  /\ UNCHANGED <<csvVars, wfVars, dbVars, calls, hook, hooks, signups, file, imp, imports>>

\* Lines 316-328: profiles upsert on user_id; an error is only logged.
InviteProfileUpsert(r) ==
  /\ req[r].pc = "profiles"
  /\ \E f \in BOOLEAN :
       /\ Faulty(f)
       /\ Count(f)
       /\ profiles' =
            IF f THEN profiles
            ELSE {p \in profiles : p.user_id # req[r].salesUser}
                   \cup {[user_id |-> req[r].salesUser, role |-> "sales_rep",
                          client_id |-> req[r].clientId]}
       /\ req' = [req EXCEPT ![r] =
            [req[r] EXCEPT !.pc = "roles",
                           !.failed = IF f THEN @ \cup {"profiles"} ELSE @,
                           !.wrote = IF f THEN @ ELSE @ \cup {"profiles"}]]
  /\ UNCHANGED <<csvVars, wfVars, users, user_roles, clients, sales_reps, audit_logs, customers,
                 calls, hook, hooks, signups, file, imp, imports>>

\* Lines 330-341: user_roles upsert on (user_id, role, tenant_id); an error
\* is only logged.
InviteRolesUpsert(r) ==
  /\ req[r].pc = "roles"
  /\ \E f \in BOOLEAN :
       /\ Faulty(f)
       /\ Count(f)
       /\ user_roles' =
            IF f THEN user_roles
            ELSE user_roles \cup {[user_id |-> req[r].salesUser, role |-> "sales_rep",
                                   tenant_id |-> req[r].clientId]}
       /\ req' = [req EXCEPT ![r] =
            [req[r] EXCEPT !.pc = "audit",
                           !.failed = IF f THEN @ \cup {"user_roles"} ELSE @,
                           !.wrote = IF f THEN @ ELSE @ \cup {"user_roles"}]]
  /\ UNCHANGED <<csvVars, wfVars, users, profiles, clients, sales_reps, audit_logs, customers,
                 calls, hook, hooks, signups, file, imp, imports>>

\* InviteAudit that answers 500 when the insert fails.
InviteAudit_Strict(r) ==
  /\ req[r].pc = "audit"
  /\ \E f \in BOOLEAN :
       /\ Faulty(f)
       /\ Count(f)
       /\ audit_logs' =
            IF f THEN audit_logs
            ELSE audit_logs \cup
                   {[id |-> NextAuditId, tenant_id |-> req[r].clientId,
                     user_id |-> req[r].caller, action |-> "invite_sales_rep",
                     resource_type |-> "sales_rep", resource_id |-> req[r].salesUser,
                     new_data |-> [email |-> req[r].email, first_name |-> req[r].name]]}
       /\ req' = [req EXCEPT ![r] =
            IF f THEN [Respond(r, 500) EXCEPT !.failed = @ \cup {"audit_logs"}]
            ELSE [req[r] EXCEPT !.pc = "repSelect", !.auditId = NextAuditId,
                                !.wrote = @ \cup {"audit_logs"}]]
  /\ UNCHANGED <<csvVars, wfVars, users, profiles, user_roles, clients, sales_reps, customers,
                 calls, hook, hooks, signups, file, imp, imports>>

\* Lines 343-351: audit_logs insert; its result is not inspected.
InviteAudit(r) ==
  /\ req[r].pc = "audit"
  /\ \E f \in BOOLEAN :
       /\ Faulty(f)
       /\ Count(f)
       /\ audit_logs' =
            IF f THEN audit_logs
            ELSE audit_logs \cup
                   {[id |-> NextAuditId, tenant_id |-> req[r].clientId,
                     user_id |-> req[r].caller, action |-> "invite_sales_rep",
                     resource_type |-> "sales_rep", resource_id |-> req[r].salesUser,
                     new_data |-> [email |-> req[r].email, first_name |-> req[r].name]]}
       /\ req' = [req EXCEPT ![r] =
            [req[r] EXCEPT !.pc = "repSelect",
                           !.auditId = IF f THEN NULL ELSE NextAuditId,
                           !.failed = IF f THEN @ \cup {"audit_logs"} ELSE @,
                           !.wrote = IF f THEN @ ELSE @ \cup {"audit_logs"}]]
  /\ UNCHANGED <<csvVars, wfVars, users, profiles, user_roles, clients, sales_reps, customers,
                 calls, hook, hooks, signups, file, imp, imports>>

\* maybeSingle(): the row when exactly one matches, and no row when none does
\* or when several do (several rows are an error, and the callers treat an
\* error like an absent row).  The result is a set of at most one row.
maybeSingle(rows) ==
  IF Cardinality(rows) = 1 THEN rows ELSE {}

\* Lines 353-363: the lookup of the representative by (client_id, email);
\* the e-mail is compared as given.
InviteRepSelect(r) ==
  /\ req[r].pc = "repSelect"
  /\ \E f \in BOOLEAN :
       /\ Faulty(f)
       /\ Count(f)
       /\ LET rows == {s \in sales_reps :
                         s.client_id = req[r].clientId /\ s.email = req[r].email}
              existingRep == IF f THEN {} ELSE maybeSingle(rows)
          IN  req' = [req EXCEPT ![r] =
                [req[r] EXCEPT
                   !.existingRep = IF existingRep = {} THEN NULL
                                   ELSE (CHOOSE x \in existingRep : TRUE).id,
                   !.pc = "repWrite"]]
  /\ UNCHANGED <<csvVars, wfVars, dbVars, calls, hook, hooks, signups, file, imp, imports>>

\* Lines 386-394: the insert into sales_reps.  The table is written with a
\* plain insert and no conflict target.
InsertSalesRep(r) ==
  sales_reps \cup
    {[id |-> NextRepId, user_id |-> req[r].salesUser,
      client_id |-> req[r].clientId, first_name |-> req[r].name,
      email |-> req[r].email, status |-> "active"]}

\* Lines 366-376: the update of the representative found, by id.
UpdateSalesRep(r) ==
  {IF s.id = req[r].existingRep
   THEN [s EXCEPT !.user_id = req[r].salesUser, !.first_name = req[r].name,
                  !.status = "active"]
   ELSE s : s \in sales_reps}

\* Lines 365-407: update or insert of the representative and the response.
InviteRepWrite(r) ==
  /\ req[r].pc = "repWrite"
  /\ \E f \in BOOLEAN :
       /\ Faulty(f)
       /\ Count(f)
       /\ sales_reps' =
            IF f THEN sales_reps
            ELSE IF req[r].existingRep # NULL THEN UpdateSalesRep(r)
            ELSE InsertSalesRep(r)
       /\ req' = [req EXCEPT ![r] =
            IF f THEN [Respond(r, 500) EXCEPT !.failed = @ \cup {"sales_reps"}]
            ELSE [Respond(r, 200) EXCEPT !.wrote = @ \cup {"sales_reps"}]]
  /\ UNCHANGED <<csvVars, wfVars, users, profiles, user_roles, clients, audit_logs, customers,
                 calls, hook, hooks, signups, file, imp, imports>>

Callers == {NoHeader, BadToken} \cup {u.id : u \in users}

Invite(S, emails) ==
  \E r \in S :
    \/ \E auth \in Callers, email \in emails, name \in InviteNames :
         InviteStart(r, auth, email, name)
    \/ InviteProfile(r)
    \/ InviteEnsure(r)
    \/ InviteFind(r)
    \/ InviteSend(r)
    \/ InviteCreate(r)
    \/ InviteFind2(r)
    \/ InviteProfileUpsert(r)
    \/ InviteRolesUpsert(r)
    \/ InviteAudit(r)
    \/ InviteRepSelect(r)
    \/ InviteRepWrite(r)

\* ------------------------------------------------------------- sign-up
\* A new administrator signs up: the identity is created without a role in
\* its metadata and handle_new_user provisions profile, tenant and role
\* assignment (migration lines 166-222).
SignUp(email) ==
  /\ signups < MaxSignUps
  /\ ~EmailTaken(email)
  /\ NextUserId <= MaxUsers
  /\ LET id == NextUserId
         res == handle_new_user(id, "")
     IN  /\ users' = users \cup {[id |-> id, email |-> email]}
         /\ profiles' = res[1]
         /\ clients' = res[2]
         /\ user_roles' = res[3]
  /\ signups' = signups + 1
  /\ UNCHANGED <<csvVars, wfVars, sales_reps, audit_logs, customers, req, calls, faults, hook,
                 hooks, file, imp, imports>>

\* ------------------------------------------- webhook-customer-onboard
HookEmails == {<<"x", "@">>, <<"X", "@">>}
HookStatuses == {"", "won"}      \* "" is a payload without status

FreshCustomerId ==
  LET ids == {c.id : c \in customers} \cup {0}
  IN  1 + (CHOOSE m \in ids : \A i \in ids : i <= m)

\* The conflict target of upsertCustomers (customerService.ts line 93)
\* presupposes a unique index on customers (sales_rep_user_id, email); the
\* columns are compared as stored.
CustomerKeyTaken(rows, u, e) ==
  \E c \in rows : c.sales_rep_user_id = u /\ c.email = e

\* HookSalesRep falling back to some representative when none has the
\* e-mail.
HookSalesRep_Fallback(sales_rep_email) ==
  LET rows == {s \in sales_reps : s.email = toLowerCase(sales_rep_email)}
  IN  IF rows = {} /\ sales_reps # {}
      THEN {CHOOSE s \in sales_reps : TRUE}
      ELSE maybeSingle(rows)

\* Lines 62-67: the lookup of the representative by lower-cased e-mail.
HookSalesRep(sales_rep_email) ==
  maybeSingle({s \in sales_reps : s.email = toLowerCase(sales_rep_email)})

\* Lines 77-92: the customer row the webhook inserts.
HookCustomer(salesRep, email, status) ==
  [id |-> FreshCustomerId,
   sales_rep_user_id |-> salesRep.user_id,
   client_id |-> salesRep.client_id,
   first_name |-> <<"z">>,
   last_name |-> <<"z">>,
   email |-> toLowerCase(email),
   source |-> "webhook",
   status |-> IF status = "" THEN "pending" ELSE status]

\* HookInsert as an upsert on (sales_rep_user_id, email).
HookInsert_Upsert(row) ==
  {c \in customers : ~(c.sales_rep_user_id = row.sales_rep_user_id
                        /\ c.email = row.email)} \cup {row}

\* Lines 77-92: the write of the customer row: a plain insert, rejected by
\* the unique index when the representative has a customer with that e-mail.
HookInsert(row) ==
  IF CustomerKeyTaken(customers, row.sales_rep_user_id, row.email)
  THEN customers
  ELSE customers \cup {row}

\* Lines 39-118: one webhook call (a lookup followed by an insert).
Webhook(sales_rep_email, email, status) ==
  /\ hooks < MaxHooks
  /\ hooks' = hooks + 1
  /\ \E f \in BOOLEAN :
       /\ Faulty(f)
       /\ Count(f)
       /\ LET salesRep == IF f THEN {} ELSE HookSalesRep(sales_rep_email)
              call == [rep_email |-> sales_rep_email, email |-> email,
                       given |-> status, rep |-> salesRep]
          IN  IF sales_rep_email = <<>> \/ email = <<>>
              THEN /\ hook' = [call EXCEPT !.rep = {}] @@ [status |-> 400]
                   /\ UNCHANGED customers
              ELSE IF salesRep = {}
              THEN /\ hook' = call @@ [status |-> 404]
                   /\ UNCHANGED customers
              ELSE LET row == HookCustomer(CHOOSE x \in salesRep : TRUE, email, status)
                       after == HookInsert(row)
                   IN  /\ customers' = after
                       /\ hook' = call @@
                            [status |-> IF row \in after /\ row \notin customers
                                        THEN 200 ELSE 500]
  /\ UNCHANGED <<csvVars, wfVars, users, profiles, user_roles, clients, sales_reps, audit_logs,
                 req, calls, signups, file, imp, imports>>

Next == Invite(Slots, InviteEmails)

Spec == Init /\ [][Next]_vars

\* ------------------------------------------------------------ CSV import
\* A file is its header line "first_name,last_name,email" followed by the
\* lines of `file`.  A line is the sequence of its comma-separated cells,
\* each trimmed; the empty line is the one empty cell <<<<>>>>.
NameN == <<"n">>
Unknown == <<"U">>            \* the literal 'Unknown'
EmailX == <<"x", "@">>
EmailXu == <<"X", "@">>       \* EmailX in another letter case

BlankLine == <<<<>>>>
EmptyRow == <<<<>>, <<>>, <<>>>>                \* the line ",,"
LineInputs ==
  {BlankLine, EmptyRow,
   <<NameN, NameN, EmailX>>,                    \* valid
   <<NameN, <<>>, EmailXu>>,                    \* valid, no last name
   <<NameN, NameN, <<"x">>>>,                   \* e-mail without "@"
   <<<<>>, <<>>, EmailX>>}                      \* no name data

RECURSIVE FilesOfLen(_)
FilesOfLen(n) ==
  IF n = 0 THEN {<<>>}
  ELSE {Append(f, l) : f \in FilesOfLen(n - 1), l \in LineInputs}

Files(max) == UNION {FilesOfLen(n) : n \in 0..max}

\* l.trim().length > 0 (ImportCsv.tsx line 17, CSVUpload.tsx line 123).
NonBlank(line) == Len(line) > 1 \/ line[1] # <<>>

Cell(line, i) == IF i \in DOMAIN line THEN line[i] ELSE <<>>

\* parseCsv(), ImportCsv.tsx lines 15-29: the non-blank lines after the
\* header, each as an object keyed by the header's names.
parseCsv(content) ==
  LET lines == SelectSeq(content, NonBlank)
  IN  [i \in DOMAIN lines |->
         [first_name |-> Cell(lines[i], 1), last_name |-> Cell(lines[i], 2),
          email |-> Cell(lines[i], 3)]]

\* ImportCsv.tsx lines 78-118: one pass of the row loop, for the row at
\* index idx of the parsed rows: an error entry or a Customer draft.
ImportCsvRow(r, idx, user) ==
  IF r.email = <<>> \/ ~includesAt(r.email)
  THEN [kind |-> "error", row |-> idx + 2, reason |-> "email"]
  ELSE IF r.first_name = <<>> /\ r.last_name = <<>>
  THEN [kind |-> "error", row |-> idx + 2, reason |-> "name"]
  ELSE [kind |-> "draft", sales_rep_user_id |-> user, client_id |-> NULL,
        first_name |-> IF r.first_name = <<>> THEN Unknown ELSE r.first_name,
        last_name |-> IF r.last_name = <<>> THEN Unknown ELSE r.last_name,
        email |-> r.email, source |-> "csv", status |-> "pending"]

\* The column indices getColumnIndex infers for the header
\* first_name,last_name,email (CSVUpload.tsx lines 103-105), 1-based.
firstNameIdx == 1
lastNameIdx == 2
emailIdx == 3

\* CSVUpload.tsx lines 127-160: one pass of the row loop, for the line at
\* index i of dataRows: skipped, an error entry or a draft.
CSVUploadRow(line, i, user) ==
  LET firstName == Cell(line, firstNameIdx)
      lastName == Cell(line, lastNameIdx)
      email == Cell(line, emailIdx)
  IN  IF \A k \in DOMAIN line : line[k] = <<>>
      THEN [kind |-> "skip"]
      ELSE IF email = <<>> \/ ~includesAt(email)
      THEN [kind |-> "error", row |-> i + 2, reason |-> "email"]
      ELSE IF firstName = <<>> /\ lastName = <<>>
      THEN [kind |-> "error", row |-> i + 2, reason |-> "name"]
      ELSE [kind |-> "draft", sales_rep_user_id |-> user, client_id |-> NULL,
            first_name |-> IF firstName = <<>> THEN Unknown ELSE firstName,
            last_name |-> IF lastName = <<>> THEN Unknown ELSE lastName,
            email |-> email, source |-> "CSV Import", status |-> "pending"]

IsError(x) == x.kind = "error"
IsDraft(x) == x.kind = "draft"

\* The results of the row loop of either component, in row order.
RowResults(component, content, user) ==
  IF component = "ImportCsv"
  THEN LET rows == parseCsv(content)
       IN  [i \in DOMAIN rows |-> ImportCsvRow(rows[i], i - 1, user)]
  ELSE LET dataRows == SelectSeq(content, NonBlank)
       IN  [i \in DOMAIN dataRows |-> CSVUploadRow(dataRows[i], i - 1, user)]

\* mapToDb(), customerService.ts lines 20-32, with the id the draft carries
\* (crypto.randomUUID() in ImportCsv, the column default in CSVUpload).
mapToDb(customer, id) ==
  [id |-> id, sales_rep_user_id |-> customer.sales_rep_user_id,
   client_id |-> customer.client_id, first_name |-> customer.first_name,
   last_name |-> customer.last_name, email |-> customer.email,
   source |-> customer.source, status |-> customer.status]

\* customerService.ts lines 60-63 and 85-88: the rows sent to the table.
RowsToWrite(drafts, user) ==
  {[mapToDb(drafts[i], FreshCustomerId + i - 1)
      EXCEPT !.sales_rep_user_id = user] : i \in DOMAIN drafts}

\* Two rows of one batch, or a row of the batch and a stored row, with the
\* same (sales_rep_user_id, email).
BatchCollides(rows) ==
  \E a \in rows, b \in rows :
    a.id # b.id /\ a.sales_rep_user_id = b.sales_rep_user_id /\ a.email = b.email

\* .insert(rows): one statement, rejected as a whole by the unique index.
\* The result is <<succeeded, customers>>.
DbInsert(rows) ==
  IF BatchCollides(rows)
     \/ \E a \in rows : CustomerKeyTaken(customers, a.sales_rep_user_id, a.email)
  THEN <<FALSE, customers>>
  ELSE <<TRUE, customers \cup rows>>

\* .upsert(rows, {onConflict: 'sales_rep_user_id,email'}): a stored row with
\* the key of a sent row takes the sent columns (client_id is not sent when
\* the draft has none); the statement is rejected when two sent rows have
\* one key.
DbUpsert(rows) ==
  IF BatchCollides(rows)
  THEN <<FALSE, customers>>
  ELSE LET Sent(c) == {a \in rows : a.sales_rep_user_id = c.sales_rep_user_id
                                    /\ a.email = c.email}
           kept == {c \in customers : Sent(c) = {}}
           updated == {[a EXCEPT !.client_id =
                           IF a.client_id = NULL
                           THEN (CHOOSE c \in customers :
                                   c.sales_rep_user_id = a.sales_rep_user_id
                                   /\ c.email = a.email).client_id
                           ELSE a.client_id] :
                         a \in {x \in rows : CustomerKeyTaken(customers,
                                                x.sales_rep_user_id, x.email)}}
           inserted == {a \in rows : ~CustomerKeyTaken(customers,
                                         a.sales_rep_user_id, a.email)}
       IN  <<TRUE, kept \cup updated \cup inserted>>

\* insertCustomers(), customerService.ts lines 53-76.
insertCustomers(drafts, user) ==
  IF user = NULL THEN <<FALSE, customers>> ELSE DbInsert(RowsToWrite(drafts, user))

\* upsertCustomers without its conflict target: a plain insert.
upsertCustomers_InsertOnly(drafts, user) ==
  IF user = NULL THEN <<FALSE, customers>> ELSE DbInsert(RowsToWrite(drafts, user))

\* upsertCustomers(), customerService.ts lines 78-103.
upsertCustomers(drafts, user) ==
  IF user = NULL THEN <<FALSE, customers>> ELSE DbUpsert(RowsToWrite(drafts, user))

\* The write of the batch: ImportCsv.tsx lines 132-133 through the service,
\* CSVUpload.tsx lines 169-175 with a direct insert of the drafts.
Persist(component, mode, drafts, user) ==
  IF component = "ImportCsv"
  THEN IF mode = "insert" THEN insertCustomers(drafts, user)
       ELSE upsertCustomers(drafts, user)
  ELSE DbInsert({mapToDb(drafts[i], FreshCustomerId + i - 1) : i \in DOMAIN drafts})

Ids(rows) == {c.id : c \in rows}

\* errors.slice(0, 5): the number of row errors a summary shows.
MaxShown == 5

\* The empty-batch message.  ImportCsv.tsx lines 121-123 joins the first
\* five errors; CSVUpload.tsx lines 163-165 appends "...and N more" when
\* there are more than five.  `more` is the count the message states, 0 when
\* it states none.
EmptyBatchMessage(component, errors) ==
  IF Len(errors) > 0
  THEN [kind |-> "errors",
        shown |-> SubSeq(errors, 1, IF Len(errors) < MaxShown THEN Len(errors)
                                    ELSE MaxShown),
        more |-> IF component = "CSVUpload" /\ Len(errors) > MaxShown
                 THEN Len(errors) - MaxShown ELSE 0]
  ELSE [kind |-> "no_data"]

\* The toast of an import: the empty-batch message, "Import complete" /
\* "Upload Successful" with the numbers of imported and skipped rows, or the
\* failure of the write.
ToastMessage(component, drafts, errors, ok) ==
  IF drafts = <<>> THEN EmptyBatchMessage(component, errors)
  ELSE IF ok THEN [kind |-> "complete", count |-> Len(drafts),
                   skipped |-> Len(errors)]
  ELSE [kind |-> "failed"]

\* handleFile (ImportCsv.tsx lines 62-159) and handleFileUpload
\* (CSVUpload.tsx lines 20-199): one import of `file` by `user`.
Import(component, mode, user) ==
  /\ Len(imports) < MaxImports
  /\ component = "CSVUpload" => mode = "insert"
  /\ LET results == IF user = NULL THEN <<>> ELSE RowResults(component, file, user)
         drafts == SelectSeq(results, IsDraft)
         errors == SelectSeq(results, IsError)
         res == IF drafts = <<>> THEN <<FALSE, customers>>
                ELSE Persist(component, mode, drafts, user)
     IN  /\ customers' = res[2]
         /\ imp' = [caller |-> user, mode |-> mode, component |-> component,
                    drafts |-> drafts, errors |-> errors, ok |-> res[1],
                    persisted |-> IF res[1]
                                  THEN Ids(res[2]) \ Ids(customers) ELSE {},
                    message |-> ToastMessage(component, drafts, errors, res[1])]
         /\ imports' = Append(imports,
                         [caller |-> user, mode |-> mode, component |-> component,
                          ok |-> res[1], count |-> Cardinality(res[2])])
  /\ UNCHANGED <<csvVars, wfVars, users, profiles, user_roles, clients, sales_reps, audit_logs,
                 req, calls, faults, hook, hooks, signups, file>>

\* A direct call of the exported service with a draft that carries the
\* ownership of another identity and tenant.
ForeignDraft ==
  [kind |-> "draft", sales_rep_user_id |-> 2, client_id |-> 2,
   first_name |-> NameN, last_name |-> NameN, email |-> <<"y", "@">>,
   source |-> "csv", status |-> "pending"]

ServiceCall(mode, user) ==
  /\ Len(imports) < MaxImports
  /\ LET drafts == <<ForeignDraft>>
         res == IF mode = "insert" THEN insertCustomers(drafts, user)
                ELSE upsertCustomers(drafts, user)
     IN  /\ customers' = res[2]
         /\ imp' = [caller |-> user, mode |-> mode, component |-> "service",
                    drafts |-> drafts, errors |-> <<>>, ok |-> res[1],
                    persisted |-> IF res[1]
                                  THEN Ids(res[2]) \ Ids(customers) ELSE {},
                    message |-> [kind |-> "none"]]
         /\ imports' = Append(imports,
                         [caller |-> user, mode |-> mode, component |-> "service",
                          ok |-> res[1], count |-> Cardinality(res[2])])
  /\ UNCHANGED <<csvVars, wfVars, users, profiles, user_roles, clients, sales_reps, audit_logs,
                 req, calls, faults, hook, hooks, signups, file>>

\* The state after administrator 1 invited EmailC: identity 3 is a
\* representative of tenant 1.
InitInvited ==
  /\ users = {[id |-> 1, email |-> EmailA], [id |-> 2, email |-> EmailB],
              [id |-> 3, email |-> EmailC]}
  /\ profiles = {[user_id |-> 1, role |-> "client_admin", client_id |-> 1],
                 [user_id |-> 2, role |-> "client_admin", client_id |-> NULL],
                 [user_id |-> 3, role |-> "sales_rep", client_id |-> 1]}
  /\ user_roles = {[user_id |-> 1, role |-> "client_admin", tenant_id |-> 1],
                   [user_id |-> 3, role |-> "sales_rep", tenant_id |-> 1]}
  /\ clients = {[id |-> 1, created_for |-> 1]}
  /\ sales_reps = {[id |-> 1, user_id |-> 3, client_id |-> 1,
                    first_name |-> "Ann", email |-> EmailC, status |-> "active"]}
  /\ audit_logs = {[id |-> 1, tenant_id |-> 1, user_id |-> 1,
                    action |-> "invite_sales_rep", resource_type |-> "sales_rep",
                    resource_id |-> 3,
                    new_data |-> [email |-> EmailC, first_name |-> "Ann"]]}
  /\ customers = {}
  /\ InitCtl

ImportCallers == {1, 3}

Imports ==
  \/ \E component \in {"ImportCsv", "CSVUpload"}, mode \in {"insert", "upsert"},
        user \in ImportCallers : Import(component, mode, user)
  \/ \E mode \in {"insert", "upsert"} : ServiceCall(mode, 3)

\* CSV imports of one file of up to MaxLines lines.
InitImport == InitInvited /\ file \in Files(MaxLines)

NextImport == Imports

SpecImport == InitImport /\ [][NextImport]_vars

\* CSV imports of a file of up to MaxLeadLines lines, and webhook calls.
LeadRepEmails == {<<>>, EmailA, EmailC, EmailCu}

InitLeads == InitInvited /\ file \in Files(MaxLeadLines)

NextLeads ==
  \/ Imports
  \/ \E sales_rep_email \in LeadRepEmails, email \in HookEmails,
        status \in HookStatuses : Webhook(sales_rep_email, email, status)

SpecLeads == InitLeads /\ [][NextLeads]_vars

\* Invitations served one at a time, with e-mails in either letter case, and
\* webhook calls for the representatives they create.
OnboardEmails == {EmailC, EmailCu}

NextOnboard ==
  \/ Invite({1}, OnboardEmails)
  \/ \E sales_rep_email \in OnboardEmails, status \in HookStatuses :
        Webhook(sales_rep_email, EmailX, status)

SpecOnboard == Init /\ [][NextOnboard]_vars

\* ----------------------------------------------------- CSV line parsing
\* A raw line is the sequence of its characters.
Quote == "\""
Comma == ","
Space == " "

\* String.prototype.trim over the characters of the model.
RECURSIVE trimStart(_)
trimStart(s) ==
  IF s # <<>> /\ Head(s) = Space THEN trimStart(Tail(s)) ELSE s

RECURSIVE trimEnd(_)
trimEnd(s) ==
  IF s # <<>> /\ s[Len(s)] = Space THEN trimEnd(SubSeq(s, 1, Len(s) - 1)) ELSE s

trim(s) == trimEnd(trimStart(s))

\* parseCSVLine(), CSVUpload.tsx lines 57-86: the loop from position i with
\* the field under construction, the quote mode and the fields pushed.
RECURSIVE parseCSVLineFrom(_, _, _, _, _)
parseCSVLineFrom(line, i, current, inQuotes, result) ==
  IF i > Len(line) THEN Append(result, trim(current))
  ELSE IF line[i] = Quote
  THEN IF inQuotes /\ i + 1 <= Len(line) /\ line[i + 1] = Quote
       THEN parseCSVLineFrom(line, i + 2, Append(current, Quote), inQuotes, result)
       ELSE parseCSVLineFrom(line, i + 1, current, ~inQuotes, result)
  ELSE IF line[i] = Comma /\ ~inQuotes
  THEN parseCSVLineFrom(line, i + 1, <<>>, inQuotes, Append(result, trim(current)))
  ELSE parseCSVLineFrom(line, i + 1, Append(current, line[i]), inQuotes, result)

parseCSVLine(line) == parseCSVLineFrom(line, 1, <<>>, FALSE, <<>>)

\* c.replace(/"/g, ''), CSVUpload.tsx line 129.
stripQuotes(c) == SelectSeq(c, LAMBDA ch : ch # Quote)

\* CSVUpload.tsx line 129: the columns the row loop reads.
CSVUploadColumns(line) ==
  LET parsed == parseCSVLine(line)
  IN  [k \in DOMAIN parsed |-> stripQuotes(parsed[k])]

\* line.split(','), ImportCsv.tsx line 21.
RECURSIVE splitFrom(_, _, _, _)
splitFrom(line, i, current, result) ==
  IF i > Len(line) THEN Append(result, current)
  ELSE IF line[i] = Comma
  THEN splitFrom(line, i + 1, <<>>, Append(result, current))
  ELSE splitFrom(line, i + 1, Append(current, line[i]), result)

split(line) == splitFrom(line, 1, <<>>, <<>>)

\* ImportCsv.tsx line 21: the columns parseCsv builds a row from.
ImportCsvColumns(line) ==
  LET cols == split(line)
  IN  [k \in DOMAIN cols |-> trim(cols[k])]

\* One data line goes through the parsing of a component.
ParseLine(component) ==
  /\ columns.component = ""
  /\ columns' = [component |-> component,
                 cols |-> IF component = "CSVUpload" THEN CSVUploadColumns(csvLine)
                          ELSE ImportCsvColumns(csvLine)]
  /\ UNCHANGED <<dbVars, req, calls, faults, hook, hooks, signups, file, imp,
                 imports, csvLine, headers, variations, columnIndex, wfVars>>

\* The lines of up to MaxChars characters over a letter, the comma and the
\* double quote.
MaxChars == 6
CsvChars == {"a", Comma, Quote}

RECURSIVE LinesOfLen(_)
LinesOfLen(n) ==
  IF n = 0 THEN {<<>>}
  ELSE {Append(l, c) : l \in LinesOfLen(n - 1), c \in CsvChars}

InitQuote ==
  /\ InitDb /\ InitCalls /\ InitWf /\ file = <<>>
  /\ csvLine \in UNION {LinesOfLen(n) : n \in 1..MaxChars}
  /\ columns = [component |-> "", cols |-> <<>>]
  /\ headers = <<>> /\ variations = <<>> /\ columnIndex = <<>>

NextQuote == \E component \in {"ImportCsv", "CSVUpload"} : ParseLine(component)

SpecQuote == InitQuote /\ [][NextQuote]_vars

\* ---------------------------------------------------- column inference
\* String.prototype.includes: sub occurs in s as a run of characters.
includes(s, sub) ==
  \E i \in 1..(Len(s) + 1) :
    /\ i + Len(sub) - 1 <= Len(s)
    /\ SubSeq(s, i, i + Len(sub) - 1) = sub

\* The test of headers.findIndex, CSVUpload.tsx lines 93-97.
HeaderMatches(header, variation) ==
  \/ includes(header, toLowerCase(variation))
  \/ includes(toLowerCase(variation), header)
  \/ header = toLowerCase(variation)

\* Array.prototype.findIndex over hs, 0-based, -1 when no header matches.
findIndex(hs, variation) ==
  LET hits == {i \in DOMAIN hs : HeaderMatches(hs[i], variation)}
  IN  IF hits = {} THEN -1
      ELSE (CHOOSE i \in hits : \A j \in hits : i <= j) - 1

\* getColumnIndex(), CSVUpload.tsx lines 91-101: the variations are tried in
\* order, and the first one that some header matches decides.
RECURSIVE getColumnIndexFrom(_, _, _)
getColumnIndexFrom(hs, columnVariations, k) ==
  IF k > Len(columnVariations) THEN -1
  ELSE LET index == findIndex(hs, columnVariations[k])
       IN  IF index # -1 THEN index
           ELSE getColumnIndexFrom(hs, columnVariations, k + 1)

getColumnIndex(hs, columnVariations) == getColumnIndexFrom(hs, columnVariations, 1)

\* One call of getColumnIndex on the header row.
InferColumn ==
  /\ columnIndex = <<>>
  /\ columnIndex' = <<getColumnIndex(headers, variations)>>
  /\ UNCHANGED <<dbVars, req, calls, faults, hook, hooks, signups, file, imp,
                 imports, csvLine, columns, headers, variations, wfVars>>

\* Header rows of up to MaxHeaders names and lists of up to MaxVariations
\* variations: names that contain one another, names that do not, the empty
\* header of a trailing comma, and a variation in upper case.
MaxHeaders == 3
MaxVariations == 2

HeaderNames == {<<"x">>, <<"y">>, <<"x", "y">>, <<"n">>, <<>>}
VariationNames == {<<"x">>, <<"Y">>, <<"x", "y">>, <<"u">>}

RECURSIVE SeqsOfLen(_, _)
SeqsOfLen(S, n) ==
  IF n = 0 THEN {<<>>}
  ELSE {Append(q, e) : q \in SeqsOfLen(S, n - 1), e \in S}

InitColumns ==
  /\ InitDb /\ InitCalls /\ InitWf /\ file = <<>>
  /\ csvLine = <<>> /\ columns = [component |-> "", cols |-> <<>>]
  /\ headers \in UNION {SeqsOfLen(HeaderNames, n) : n \in 0..MaxHeaders}
  /\ variations \in UNION {SeqsOfLen(VariationNames, n) : n \in 1..MaxVariations}
  /\ columnIndex = <<>>

NextColumns == InferColumn

SpecColumns == InitColumns /\ [][NextColumns]_vars

\* ------------------------------------------------------------ workflows
MaxUpdates == 3

\* .single(): the row when exactly one matches, otherwise an error and no
\* data.  The result is a set of at most one row.
single(rows) == IF Cardinality(rows) = 1 THEN rows ELSE {}

\* The customers of a representative: the sub-select of the workflows
\* policies (migration lines 108-133).
CustomersOf(u) == {c.id : c \in {x \in customers : x.sales_rep_user_id = u}}

NextWorkflowId == Cardinality(workflows) + 1

\* CHECK (status IN ('pending', 'active', 'completed', 'failed')).
WorkflowStatuses == {"pending", "active", "completed", "failed"}

\* createWorkflow(), customerService.ts lines 274-311, under the insert
\* policy and UNIQUE(customer_id).
createWorkflow(user, customerId) ==
  /\ updates < MaxUpdates
  /\ updates' = updates + 1
  /\ LET userRole == single({ur \in user_roles : ur.user_id = user})
         tenant == (CHOOSE ur \in userRole : TRUE).tenant_id
     IN  /\ workflows' =
              IF user = NULL \/ userRole = {} THEN workflows
              ELSE IF tenant = NULL THEN workflows
              ELSE IF customerId \notin CustomersOf(user) THEN workflows
              ELSE IF \E w \in workflows : w.customer_id = customerId THEN workflows
              ELSE workflows \cup
                     {[id |-> NextWorkflowId, customer_id |-> customerId,
                       tenant_id |-> tenant, status |-> "pending",
                       current_step |-> "initial", error_message |-> "",
                       completed_at |-> NULL]}
         /\ svc' = [op |-> "createWorkflow", user |-> user, role |-> "",
                    result |-> IF user = NULL \/ userRole = {} THEN NULL
                               ELSE tenant]
  /\ UNCHANGED <<dbVars, req, calls, faults, hook, hooks, signups, file, imp,
                 imports, csvVars>>

\* updateWorkflowStatus(), customerService.ts lines 333-372, under the
\* update policy and the CHECK on status.  "" is an argument left out; the
\* time of the update is the number of the call.
updateWorkflowStatus(user, workflowId, status, currentStep, errorMessage) ==
  /\ updates < MaxUpdates
  /\ updates' = updates + 1
  /\ workflows' =
       IF status \notin WorkflowStatuses THEN workflows
       ELSE {IF w.id = workflowId /\ w.customer_id \in CustomersOf(user)
             THEN [w EXCEPT
                     !.status = status,
                     !.current_step = IF currentStep # "" THEN currentStep ELSE @,
                     !.completed_at = IF status = "completed" THEN updates + 1 ELSE @,
                     !.error_message = IF errorMessage # "" THEN errorMessage ELSE @]
             ELSE w : w \in workflows}
  /\ UNCHANGED <<dbVars, req, calls, faults, hook, hooks, signups, file, imp,
                 imports, csvVars, svc>>

\* Leads arrive by the webhook for representative 3; workflows are created
\* and updated by the administrator 1 and the representative 3.
WorkflowUsers == {1, 3}
WorkflowInputs == {"pending", "active", "completed", "failed", "done"}

NextWorkflow ==
  \/ \E email \in {EmailX, <<"y", "@">>} : Webhook(EmailC, email, "")
  \/ \E user \in WorkflowUsers, customerId \in 1..MaxHooks :
        createWorkflow(user, customerId)
  \/ \E user \in WorkflowUsers, workflowId \in 1..MaxHooks,
        status \in WorkflowInputs, currentStep \in {"", "review"},
        errorMessage \in {"", "timeout"} :
        updateWorkflowStatus(user, workflowId, status, currentStep, errorMessage)

InitWorkflow == InitInvited /\ file = <<>>

SpecWorkflow == InitWorkflow /\ [][NextWorkflow]_vars

\* Sign-ups of new administrators and invitations served one at a time; the
\* invited e-mail is that of an administrator or a new one.
RoleEmails == {EmailA, EmailC}

NextRoles ==
  \/ Invite({1}, RoleEmails)
  \/ \E email \in SignUpEmails : SignUp(email)

SpecRoles == Init /\ [][NextRoles]_vars

\* ------------------------------------------------- role and tenant reads
\* hasRole(), customerService.ts lines 139-161: .single() on the caller's
\* rows with the role; no row and several rows both leave data null.
hasRole(user, role) ==
  /\ updates < MaxUpdates
  /\ updates' = updates + 1
  /\ LET data == IF user = NULL THEN {}
                 ELSE single({ur \in user_roles : ur.user_id = user /\ ur.role = role})
     IN  svc' = [op |-> "hasRole", user |-> user, role |-> role,
                 result |-> data # {}]
  /\ UNCHANGED <<dbVars, req, calls, faults, hook, hooks, signups, file, imp,
                 imports, csvVars, workflows>>

\* The tenant the services read: .single() on the caller's user_roles rows
\* (customerService.ts lines 167-179, 216-220, 282-290).
ServiceTenant(user) ==
  LET userRole == IF user = NULL THEN {}
                  ELSE single({ur \in user_roles : ur.user_id = user})
  IN  IF userRole = {} THEN NULL ELSE (CHOOSE ur \in userRole : TRUE).tenant_id

\* getTenantId(), customerService.ts lines 163-184.
getTenantId(user) ==
  /\ updates < MaxUpdates
  /\ updates' = updates + 1
  /\ svc' = [op |-> "getTenantId", user |-> user, role |-> "",
             result |-> ServiceTenant(user)]
  /\ UNCHANGED <<dbVars, req, calls, faults, hook, hooks, signups, file, imp,
                 imports, csvVars, workflows>>

\* logAudit(), customerService.ts lines 202-236: the entry is written only
\* when the tenant was resolved.
logAudit(user, action, resourceType) ==
  /\ updates < MaxUpdates
  /\ updates' = updates + 1
  /\ LET tenant == ServiceTenant(user)
     IN  /\ audit_logs' =
              IF tenant = NULL THEN audit_logs
              ELSE audit_logs \cup
                     {[id |-> NextAuditId, tenant_id |-> tenant, user_id |-> user,
                       action |-> action, resource_type |-> resourceType,
                       resource_id |-> NULL, new_data |-> NULL]}
         /\ svc' = [op |-> "logAudit", user |-> user, role |-> "",
                    result |-> tenant]
  /\ UNCHANGED <<users, profiles, user_roles, clients, sales_reps, customers,
                 req, calls, faults, hook, hooks, signups, file, imp, imports,
                 csvVars, workflows>>

\* Invitations of an administrator's e-mail, served one at a time, and the
\* role and tenant reads of the services by the two administrators.
ServiceUsers == {1, 2}
ServiceRoles == {"client_admin", "sales_rep"}

NextService ==
  \/ Invite({1}, {EmailA})
  \/ \E user \in ServiceUsers, role \in ServiceRoles : hasRole(user, role)
  \/ \E user \in ServiceUsers : getTenantId(user)
  \/ \E user \in ServiceUsers : logAudit(user, "view", "customer")
  \/ \E user \in ServiceUsers : createWorkflow(user, 1)

SpecService == Init /\ [][NextService]_vars

\* Imports of a file of up to MaxErrLines rows, each valid, without a usable
\* e-mail or without name data.
MaxErrLines == 6

SummaryLines ==
  {<<NameN, NameN, EmailX>>, <<NameN, NameN, <<"x">>>>, <<<<>>, <<>>, EmailX>>}

RECURSIVE SummaryFilesOfLen(_)
SummaryFilesOfLen(n) ==
  IF n = 0 THEN {<<>>}
  ELSE {Append(f, l) : f \in SummaryFilesOfLen(n - 1), l \in SummaryLines}

InitSummary ==
  InitInvited /\ file \in UNION {SummaryFilesOfLen(n) : n \in 0..MaxErrLines}

NextSummary ==
  \E component \in {"ImportCsv", "CSVUpload"} : Import(component, "insert", 3)

SpecSummary == InitSummary /\ [][NextSummary]_vars

\* ================================================================ claims
UserIds == {u.id : u \in users}
ClientIds == {c.id : c \in clients}
TenantsCreatedFor(u) == {c \in clients : c.created_for = u}

\* C1: tenant provisioning is idempotent under races.  No identity ever has
\* more than one tenant created for it, and every invite-sales-rep call that
\* found profile.client_id empty and provisioned holds the one tenant
\* created for its caller, whichever of the racing calls created it.
C1_ProvisionOnce ==
  /\ \A u \in UserIds : Cardinality(TenantsCreatedFor(u)) <= 1
  /\ \A r \in Slots :
       req[r].ensured =>
         TenantsCreatedFor(req[r].caller) = {[id |-> req[r].clientId,
                                              created_for |-> req[r].caller]}

\* Two calls of the same tenant-less administrator both found client_id
\* empty and both went through provisioning.
C1_Witness ==
  /\ req[1].ensured /\ req[2].ensured
  /\ req[1].caller = req[2].caller
  /\ req[1].clientId = req[2].clientId
  /\ req[1].clientId # NULL

\* C2: after any interleaving of invite-sales-rep calls, sales_reps holds at
\* most one row per (tenant, email).
C2_OneRepPerTenantEmail ==
  \A a \in sales_reps, b \in sales_reps :
    (a.client_id = b.client_id /\ a.email = b.email) => a.id = b.id

\* C3: a user passes the administrator policy on audit_logs or workflows for
\* tenant t only if the user holds a client_admin assignment for t.
C3_TenantIsolation ==
  \A u \in UserIds, t \in ClientIds :
    (CanViewAuditLogs(u, t) \/ CanViewWorkflowsAsAdmin(u, t)) =>
      [user_id |-> u, role |-> "client_admin", tenant_id |-> t] \in user_roles

\* C4: an invite-sales-rep call that ends with 401 or 403 has written
\* nothing: no identity, profile, role assignment, tenant, representative
\* or audit entry.
C4_NoEffectOnAuthFailure ==
  \A r \in Slots :
    (req[r].pc = "done" /\ req[r].status \in {401, 403}) => req[r].wrote = {}

\* A call was refused with 403 while the tables held the effects of another
\* call.
C4_Witness ==
  \E r \in Slots, q \in Slots :
    /\ req[r].pc = "done" /\ req[r].status = 403
    /\ q # r /\ req[q].wrote # {}

\* C5: a webhook call with all required fields whose sales_rep_email matches
\* no representative record answers 404 and changes neither customers nor
\* sales_reps.
C5_UnknownRepNotFound ==
  [][(/\ hooks' = hooks + 1
      /\ hook'.rep_email # <<>>
      /\ hook'.email # <<>>
      /\ ~\E s \in sales_reps :
            toLowerCase(s.email) = toLowerCase(hook'.rep_email))
     => (/\ hook'.status = 404
         /\ customers' = customers
         /\ sales_reps' = sales_reps)]_vars

\* The webhook answered 404 for an unknown representative while customers
\* of a known one are stored.
C5_Witness ==
  /\ hook.status = 404
  /\ hook.rep_email = EmailA
  /\ customers # {}

\* C6: every webhook call that answers 200 adds exactly one customer row,
\* owned by the resolved representative's user and tenant, with status
\* "pending" when the payload has none, and leaves every stored row as it
\* was.
C6_WebhookCreateOnly ==
  [][(hooks' = hooks + 1 /\ hook'.status = 200)
     => \E c \in customers', rep \in hook'.rep :
          /\ c.id \notin Ids(customers)
          /\ customers' = customers \cup {c}
          /\ c.sales_rep_user_id = rep.user_id
          /\ c.client_id = rep.client_id
          /\ c.email = toLowerCase(hook'.email)
          /\ (hook'.given = "" => c.status = "pending")]_vars

\* The webhook answered 200 for a representative who already had a customer
\* with that e-mail in another letter case.
C6_Witness ==
  /\ hook.status = 200
  /\ \E c \in customers, d \in customers :
       /\ c.id # d.id
       /\ c.sales_rep_user_id = d.sales_rep_user_id
       /\ toLowerCase(c.email) = toLowerCase(d.email)
       /\ d.email = toLowerCase(hook.email)
       /\ d.source = "webhook"

\* What the claims call a valid and an invalid data row.
ValidLine(l) ==
  /\ NonBlank(l)
  /\ includesAt(Cell(l, 3))
  /\ (Cell(l, 1) # <<>> \/ Cell(l, 2) # <<>>)

InvalidLine(l) == NonBlank(l) /\ ~ValidLine(l)

Positions(P(_)) ==
  SelectSeq([i \in 1..Len(file) |-> i], LAMBDA i : P(file[i]))

\* C7: an import whose batch write succeeds persists exactly the valid
\* rows and reports one error per invalid row, each naming the row's
\* 1-based position in the file with the header as row 1 (the line
\* file[i] is row i + 1).  Stated for files without the line ",,".
C7_RowIsolation ==
  (/\ imp.component \in {"ImportCsv", "CSVUpload"}
   /\ imp.ok
   /\ \A i \in DOMAIN file : file[i] # EmptyRow)
  => LET valid == Positions(ValidLine)
         invalid == Positions(InvalidLine)
     IN  /\ Cardinality(imp.persisted) = Len(valid)
         /\ [k \in DOMAIN imp.drafts |-> imp.drafts[k].email]
              = [k \in DOMAIN valid |-> Cell(file[valid[k]], 3)]
         /\ [k \in DOMAIN imp.errors |-> imp.errors[k].row]
              = [k \in DOMAIN invalid |-> invalid[k] + 1]

\* C8: from an empty customers table, importing the same file twice in
\* upsert mode by the same user leaves as many rows after the second run as
\* after the first, and the second run succeeds when the first did.
C8_UpsertIdempotent ==
  (/\ Len(imports) >= 2
   /\ imports[1].component = "ImportCsv" /\ imports[2].component = "ImportCsv"
   /\ imports[1].mode = "upsert" /\ imports[2].mode = "upsert"
   /\ imports[1].caller = imports[2].caller)
  => /\ imports[2].count = imports[1].count
     /\ imports[1].ok => imports[2].ok

\* The same file of two valid rows was imported twice in upsert mode.
C8_Witness ==
  /\ Len(imports) >= 2
  /\ imports[1].component = "ImportCsv" /\ imports[2].component = "ImportCsv"
  /\ imports[1].mode = "upsert" /\ imports[2].mode = "upsert"
  /\ imports[1].caller = imports[2].caller
  /\ imports[1].ok /\ imports[2].ok
  /\ imports[2].count = 2

\* C9: no two customer rows have the same owning representative and the
\* same e-mail compared case-folded.
C9_UniqueEmailPerRep ==
  \A c \in customers, d \in customers :
    (c.sales_rep_user_id = d.sales_rep_user_id
       /\ toLowerCase(c.email) = toLowerCase(d.email)) => c.id = d.id

\* The tenant of a user, as the profile records it.
CallerTenant(u) == {p.client_id : p \in ProfileOf(u)}

\* C10: every row a CSV import persisted is owned by the importing user and
\* by that user's tenant, whatever ownership the draft carried.
C10_ImportAttribution ==
  \A c \in customers :
    c.id \in imp.persisted =>
      /\ c.sales_rep_user_id = imp.caller
      /\ c.client_id \in CallerTenant(imp.caller)

\* ---------------------------------------------------------------- C11
\* C11: when no row of the file yields a valid draft, the import fails and
\* persists nothing; its message shows the first five collected errors and
\* states the count of the remaining ones when there are more than five; with
\* zero errors it is the generic no-data-rows message.
C11_EmptyBatchSummary ==
  (imp.component \in {"ImportCsv", "CSVUpload"} /\ imp.drafts = <<>>) =>
    /\ ~imp.ok
    /\ imp.persisted = {}
    /\ customers = {}
    /\ imp.errors = <<>> => imp.message.kind = "no_data"
    /\ imp.errors # <<>> =>
         /\ imp.message.kind = "errors"
         /\ imp.message.shown =
              [i \in 1..(IF Len(imp.errors) < 5 THEN Len(imp.errors) ELSE 5) |->
                 imp.errors[i]]
         /\ imp.message.more =
              (IF Len(imp.errors) > 5 THEN Len(imp.errors) - 5 ELSE 0)

\* ---------------------------------------------------------------- C12
\* C12: after an invite-sales-rep call returned 200, a representative row
\* for (the caller's tenant, the submitted e-mail) exists with status
\* "active" and the user_id of the response, and createdUser is true exactly
\* when no identity with that e-mail existed before the call and this call
\* invited or created it.
C12_InviteOutcome ==
  \A r \in Slots :
    (req[r].pc = "done" /\ req[r].status = 200) =>
      /\ \E s \in sales_reps :
           /\ s.client_id = req[r].clientId
           /\ s.email = req[r].email
           /\ s.status = "active"
           /\ s.user_id = req[r].salesUser
      /\ req[r].salesUser \in UserIds
      /\ req[r].created <=> (~req[r].existed /\ "users" \in req[r].wrote)

\* One call returned 200 for an identity it created, another returned 200
\* for an identity that existed.
C12_Witness ==
  \E r, q \in Slots :
    /\ req[r].pc = "done" /\ req[r].status = 200 /\ req[r].created
    /\ req[q].pc = "done" /\ req[q].status = 200 /\ ~req[q].created

\* ---------------------------------------------------------------- C13
\* C13: every invite-sales-rep call that returns 200 has written exactly one
\* audit entry: action "invite_sales_rep", actor the caller, resource the
\* resolved representative identity, new_data the submitted fields.
C13_OneAuditPerInvite ==
  \A r \in Slots :
    (req[r].pc = "done" /\ req[r].status = 200) =>
      \E a \in audit_logs :
        /\ a.id = req[r].auditId
        /\ a.action = "invite_sales_rep"
        /\ a.user_id = req[r].caller
        /\ a.tenant_id = req[r].clientId
        /\ a.resource_id = req[r].salesUser
        /\ a.new_data = [email |-> req[r].email, first_name |-> req[r].name]

\* ---------------------------------------------------------------- C14
\* C14: best-effort steps never decide the outcome of invite-sales-rep.  A
\* call that resolved the identity returns 200 unless the update or insert
\* of the representative failed, also when the profile upsert, the role
\* upsert or the audit insert failed; and it returns 500 whenever the update
\* or insert of the representative failed.
C14_BestEffort ==
  \A r \in Slots :
    (req[r].pc = "done" /\ req[r].salesUser # NULL) =>
      /\ "sales_reps" \in req[r].failed => req[r].status = 500
      /\ "sales_reps" \notin req[r].failed =>
           req[r].status = 200 /\ "sales_reps" \in req[r].wrote

\* A call returned 200 although its audit insert or its profile upsert failed.
C14_Witness ==
  \E r \in Slots :
    /\ req[r].pc = "done" /\ req[r].status = 200
    /\ req[r].failed \cap {"audit_logs", "profiles"} # {}

ResolutionOrder == <<"find", "invite", "create", "find2">>

C20_ResolutionOrder ==
  \A r \in Slots :
    LET steps == req[r].steps
    IN  /\ Len(steps) <= Len(ResolutionOrder)
        /\ \A i \in DOMAIN steps : steps[i].step = ResolutionOrder[i]
        /\ \A i \in DOMAIN steps : i < Len(steps) => ~steps[i].resolved
        /\ (req[r].pc = "done" /\ req[r].status = 400 /\ req[r].email # <<>>) =>
             (Len(steps) = 4 /\ ~steps[4].resolved)
        /\ req[r].salesUser # NULL <=>
             (steps # <<>> /\ steps[Len(steps)].resolved)
        /\ req[r].pc \in {"profiles", "roles", "audit", "repSelect", "repWrite"} =>
             req[r].salesUser # NULL

\* One call went through all four steps and failed after the final lookup
\* found nothing; another was resolved by the invitation and ran no later
\* step.
C20_Witness ==
  \E r, q \in Slots :
    /\ Len(req[r].steps) = 4 /\ req[r].pc = "done" /\ req[r].status = 400
    /\ Len(req[q].steps) = 2 /\ req[q].steps[2].resolved /\ req[q].status = 200

\* ---------------------------------------------------------------- C16
\* C16: the webhook resolves the representative by e-mail without regard to
\* letter case.  When exactly one representative row has an e-mail that
\* differs from the call's sales_rep_email at most in letter case, and the
\* lookup meets no infrastructure error, the call resolves that
\* representative and does not return 404.
RepsByEmailNoCase(e) ==
  {s \in sales_reps : toLowerCase(s.email) = toLowerCase(e)}

C16_HookCaseInsensitive ==
  [][(hooks' = hooks + 1 /\ faults' = faults
      /\ Cardinality(RepsByEmailNoCase(hook'.rep_email)) = 1)
     => (hook'.status # 404 /\ hook'.rep = RepsByEmailNoCase(hook'.rep_email))]_vars

\* ---------------------------------------------------------------- C17
\* C17: CSV quoting is honoured on the import path.  For every well-formed
\* line (a field is either free of double quotes, or enclosed in double
\* quotes with every inner double quote doubled), the fields that reach the
\* row loop are the fields of the line: a comma inside a quoted field does
\* not split it, and a doubled double quote inside a quoted field is one
\* literal double quote of the value.
\* The scan of a line: `at` is "start" (before a field), "plain" (in an
\* unquoted field), "quoted" (in a quoted field) or "closed" (after the
\* closing quote).
RECURSIVE QuotedFieldsFrom(_, _, _, _)
QuotedFieldsFrom(rest, at, cur, out) ==
  IF rest = <<>>
  THEN [ok |-> at # "quoted", fields |-> Append(out, cur)]
  ELSE LET c == Head(rest)
       IN  IF at = "quoted"
           THEN IF c # Quote
                THEN QuotedFieldsFrom(Tail(rest), "quoted", Append(cur, c), out)
                ELSE IF Len(rest) > 1 /\ rest[2] = Quote
                THEN QuotedFieldsFrom(Tail(Tail(rest)), "quoted", Append(cur, Quote), out)
                ELSE QuotedFieldsFrom(Tail(rest), "closed", cur, out)
           ELSE IF c = Comma
           THEN QuotedFieldsFrom(Tail(rest), "start", <<>>, Append(out, cur))
           ELSE IF c = Quote
           THEN IF at = "start"
                THEN QuotedFieldsFrom(Tail(rest), "quoted", cur, out)
                ELSE [ok |-> FALSE, fields |-> <<>>]
           ELSE IF at = "closed"
           THEN [ok |-> FALSE, fields |-> <<>>]
           ELSE QuotedFieldsFrom(Tail(rest), "plain", Append(cur, c), out)

QuotedFields(line) == QuotedFieldsFrom(line, "start", <<>>, <<>>)

C17_QuotingHonoured ==
  (columns.component # "" /\ QuotedFields(csvLine).ok) =>
    columns.cols = QuotedFields(csvLine).fields

\* ---------------------------------------------------------------- C18
\* C18: column inference is order-stable.  The inferred index is the
\* smallest header index whose header equals, contains or is contained in
\* any variation of the list, and -1 when no header matches any variation.
MatchingHeaders ==
  {i \in DOMAIN headers :
     \E k \in DOMAIN variations :
       LET v == toLowerCase(variations[k])
       IN  headers[i] = v \/ includes(headers[i], v) \/ includes(v, headers[i])}

C18_FirstMatchingHeader ==
  columnIndex # <<>> =>
    IF MatchingHeaders = {} THEN columnIndex[1] = -1
    ELSE /\ columnIndex[1] + 1 \in MatchingHeaders
         /\ \A j \in MatchingHeaders : columnIndex[1] + 1 <= j

C21_RoleAssigned ==
  \A r \in Slots :
    (req[r].pc = "done" /\ req[r].status = 200) =>
      [user_id |-> req[r].salesUser, role |-> "sales_rep",
       tenant_id |-> req[r].clientId] \in user_roles

\* ---------------------------------------------------------------- C23
\* C23: after any sequence of sign-ups, tenant provisionings and
\* invite-sales-rep calls, every identity holds at most one role assignment
\* row in user_roles.
C23_OneRolePerUser ==
  \A u \in UserIds : Cardinality({ur \in user_roles : ur.user_id = u}) <= 1

\* ---------------------------------------------------------------- C24
\* C24: invite-sales-rep never changes the role or the tenant recorded in
\* the profile of an identity that existed before the call.
C24_ExistingProfileKept ==
  [][\A r \in Slots :
       (req[r].pc = "profiles" /\ req'[r].pc = "roles" /\ req[r].existed) =>
         {p \in profiles' : p.user_id = req[r].salesUser} =
           {p \in profiles : p.user_id = req[r].salesUser}]_vars

\* ---------------------------------------------------------------- C26
\* C26: the two role stores agree.  Whenever no invite-sales-rep call is
\* under way, for every identity whose profile names a tenant, the role
\* assignments of the identity in user_roles are the one row with the
\* profile's role and tenant.
NoCallUnderWay == \A r \in Slots : req[r].pc \in {"idle", "done"}

C26_RoleStoresAgree ==
  NoCallUnderWay =>
    \A p \in profiles :
      p.client_id # NULL =>
        {ur \in user_roles : ur.user_id = p.user_id} =
          {[user_id |-> p.user_id, role |-> p.role, tenant_id |-> p.client_id]}

\* ---------------------------------------------------------------- C25
\* C25: whenever no invite-sales-rep call is under way, every audit entry
\* with action "invite_sales_rep" for tenant T and submitted e-mail E is
\* matched by a representative row for (T, E).
C25_AuditMatchedByRep ==
  NoCallUnderWay =>
    \A a \in audit_logs :
      a.action = "invite_sales_rep" =>
        \E s \in sales_reps :
          s.client_id = a.tenant_id /\ s.email = a.new_data.email

\* ---------------------------------------------------------------- C22
\* C22: getTenantId, createWorkflow and logAudit resolve a non-null tenant
\* for every user who has at least one assignment row with a tenant, and the
\* tenant is one that get_user_tenant_id yields for the user.
C22_TenantResolved ==
  [][(updates' = updates + 1
      /\ svc'.op \in {"getTenantId", "createWorkflow", "logAudit"}
      /\ \E ur \in user_roles : ur.user_id = svc'.user /\ ur.tenant_id # NULL)
     => (svc'.result # NULL /\ svc'.result \in get_user_tenant_id(svc'.user))]_vars

\* ---------------------------------------------------------------- C29
\* C29: hasRole(role) returns true if and only if the authenticated user has
\* at least one user_roles row with that role, as has_role does.
C29_HasRoleAgrees ==
  [][(updates' = updates + 1 /\ svc'.op = "hasRole")
     => (svc'.result <=> has_role(svc'.user, svc'.role))]_vars

C30_NotFoundOnlyWhenAbsent ==
  [][(hooks' = hooks + 1 /\ faults' = faults
      /\ hook'.rep_email # <<>> /\ hook'.email # <<>>
      /\ \E s \in sales_reps : s.email = toLowerCase(hook'.rep_email))
     => (hook'.status # 404 /\ hook'.rep # {})]_vars

\* ------------------------------------------------- the six field columns
\* The variation lists of the six call sites, CSVUpload.tsx lines 103-108,
\* by the name of the index each call assigns, each string as the sequence
\* of its characters.
fieldVariations ==
  [firstNameIdx |->
      <<<<"f", "i", "r", "s", "t", "n", "a", "m", "e">>,
        <<"f", "i", "r", "s", "t", "_", "n", "a", "m", "e">>,
        <<"f", "n", "a", "m", "e">>,
        <<"f", "i", "r", "s", "t", " ", "n", "a", "m", "e">>>>,
   lastNameIdx |->
      <<<<"l", "a", "s", "t", "n", "a", "m", "e">>,
        <<"l", "a", "s", "t", "_", "n", "a", "m", "e">>,
        <<"l", "n", "a", "m", "e">>,
        <<"l", "a", "s", "t", " ", "n", "a", "m", "e">>>>,
   emailIdx |->
      <<<<"e", "m", "a", "i", "l">>,
        <<"e", "m", "a", "i", "l", "_", "a", "d", "d", "r", "e", "s", "s">>,
        <<"m", "a", "i", "l">>>>,
   phoneIdx |->
      <<<<"p", "h", "o", "n", "e", "n", "o">>,
        <<"p", "h", "o", "n", "e", "_", "n", "o">>,
        <<"p", "h", "o", "n", "e">>,
        <<"m", "o", "b", "i", "l", "e">>,
        <<"c", "o", "n", "t", "a", "c", "t">>>>,
   sourceIdx |->
      <<<<"s", "o", "u", "r", "c", "e">>,
        <<"l", "e", "a", "d", "_", "s", "o", "u", "r", "c", "e">>,
        <<"o", "r", "i", "g", "i", "n">>>>,
   notesIdx |->
      <<<<"n", "o", "t", "e", "s">>,
        <<"n", "o", "t", "e">>,
        <<"r", "e", "m", "a", "r", "k", "s">>,
        <<"c", "o", "m", "m", "e", "n", "t", "s">>,
        <<"d", "e", "s", "c", "r", "i", "p", "t", "i", "o", "n">>>>]

\* Header names as line 88 leaves them, in lower case and without quotes:
\* one header per field, a one-word header, a header naming two fields, a
\* header naming none, and the empty header of a trailing comma.
FieldHeaderNames ==
  {<<"f", "i", "r", "s", "t", "_", "n", "a", "m", "e">>,
   <<"l", "a", "s", "t", "_", "n", "a", "m", "e">>,
   <<"e", "m", "a", "i", "l">>,
   <<"p", "h", "o", "n", "e">>,
   <<"s", "o", "u", "r", "c", "e">>,
   <<"n", "o", "t", "e", "s">>,
   <<"n", "a", "m", "e">>,
   <<"c", "o", "n", "t", "a", "c", "t", " ", "e", "m", "a", "i", "l">>,
   <<"c", "o", "m", "p", "a", "n", "y">>,
   <<>>}

\* The six calls of getColumnIndex on the header row, lines 103-108.
InferFields ==
  /\ columnIndex = <<>>
  /\ columnIndex' =
       <<[f \in DOMAIN fieldVariations |->
            getColumnIndex(headers, fieldVariations[f])]>>
  /\ UNCHANGED <<dbVars, req, calls, faults, hook, hooks, signups, file, imp,
                 imports, csvLine, columns, headers, variations, wfVars>>

InitFields ==
  /\ InitDb /\ InitCalls /\ InitWf /\ file = <<>>
  /\ csvLine = <<>> /\ columns = [component |-> "", cols |-> <<>>]
  /\ headers \in UNION {SeqsOfLen(FieldHeaderNames, n) : n \in 0..MaxHeaders}
  /\ variations = <<>>
  /\ columnIndex = <<>>

NextFields == InferFields

SpecFields == InitFields /\ [][NextFields]_vars

\* C27: after column inference, the indices found for first name, last name,
\* email, phone, source and notes that are not -1 are pairwise distinct, for
\* every header row.
C27_FieldColumnsDistinct ==
  columnIndex # <<>> =>
    \A f, g \in DOMAIN fieldVariations :
      (f # g /\ columnIndex[1][f] # -1 /\ columnIndex[1][g] # -1)
        => columnIndex[1][f] # columnIndex[1][g]

====
